---- MODULE Spec2Model ----
(***************************************************************************)
(* PDF page rasterisation pipeline of pypdfium2-test: the PDFConverter     *)
(* class (src/main.py and its font-aware variant src/test_pypdfium2.py),   *)
(* the command line front end main() and the font probe.                   *)
(*                                                                         *)
(* A path is a sequence of tokens, "/" and "." being tokens of their own,  *)
(* so that basename, splitext, dirname and join are computed, not assumed. *)
(***************************************************************************)
EXTENDS Integers, Sequences, FiniteSets, TLC

VARIABLES
    variant,      \* which script runs: "main.py" or "test_pypdfium2.py"
    hasName,      \* hasattr(self.pdf, 'name') for the installed pypdfium2 build
    pdf,          \* self.pdf: the loaded document handle, NoPdf for None
    handles,      \* number of document handles acquired so far (ids 1..handles)
    released,     \* released[h]: how many times handle h has been released
    dirs,         \* directories that exist on disk
    files,        \* output files on disk: path -> content
    lastCall,     \* the arguments of the most recent converter call
    result,       \* what that call returned
    error,        \* the exception that call caught (NoError if none)
    escaped,      \* the exception that left the call (NoError if none)
    rendered,     \* the page renders that call attempted, in order
    attempts,     \* convert_all_pages: the pages it tried, in order, with results
    calls,        \* number of converter calls made so far
    running,      \* the process has not ended yet
    argv,         \* sys.argv of main()
    pc,           \* position of main()
    opts,         \* what main() parsed from argv
    fontFs,       \* font probe: which font paths exist on disk
    profiler,     \* font probe: what the system_profiler subprocess does
    stsong_font,  \* self.stsong_font
    probe,        \* font probe: what _find_stsong_font did
    lib,          \* the pypdfium2 module: its _library_initialized attribute
                  \* and how often FPDF_InitLibraryWithConfig has completed
    parked        \* a second converter instance that is not the current one

vars == <<variant, hasName, pdf, handles, released, dirs, files, lastCall,
          result, error, escaped, rendered, attempts, calls, running, argv,
          pc, opts,
          fontFs, profiler, stsong_font, probe, lib, parked>>

convVars == <<pdf, handles, released, dirs, files, lib>>
callVars == <<lastCall, result, error, escaped, rendered, attempts, calls>>
mainVars == <<argv, pc, opts>>
fontVars == <<fontFs, profiler, stsong_font, probe>>

----------------------------------------------------------------------------
(* Bounds of the model *)

MaxPages == 2       \* page count of the largest sample document
MaxCalls == 2       \* converter calls made in one run

----------------------------------------------------------------------------
(* Paths *)

Sep == "/"
Dot == "."

RECURSIVE LastIndexOf(_, _, _)
\* the largest i <= n with p[i] = tok, 0 if there is none
LastIndexOf(p, tok, n) ==
    IF n = 0 THEN 0
    ELSE IF p[n] = tok THEN n ELSE LastIndexOf(p, tok, n - 1)

\* os.path.basename: what follows the last separator
Basename(p) == SubSeq(p, LastIndexOf(p, Sep, Len(p)) + 1, Len(p))

\* os.path.dirname: what precedes the last separator ("/" itself for a
\* file directly under the root)
Dirname(p) ==
    LET i == LastIndexOf(p, Sep, Len(p))
    IN  IF i = 0 THEN <<>>
        ELSE IF i = 1 THEN <<Sep>>
        ELSE SubSeq(p, 1, i - 1)

\* os.path.splitext(...)[0] of a base name: the part before the last dot,
\* a dot that only follows dots not being an extension separator
SplitextRoot(b) ==
    LET i == LastIndexOf(b, Dot, Len(b))
    IN  IF i > 0 /\ \E j \in 1..(i - 1) : b[j] # Dot
        THEN SubSeq(b, 1, i - 1)
        ELSE b

\* os.path.isabs
IsAbs(p) == Len(p) > 0 /\ p[1] = Sep

\* os.path.join(a, b)
Join(a, b) ==
    IF IsAbs(b) THEN b
    ELSE IF a = <<>> \/ a[Len(a)] = Sep THEN a \o b
    ELSE a \o <<Sep>> \o b

\* f"{pdf_name}_page_{page + 1}.png"
PageFileName(pdf_name, page) ==
    pdf_name \o <<"_page_", ToString(page + 1), Dot, "png">>

OutputDir == <<"output">>

\* a derivation that numbers the pages from 0
DerivedOutputPathZeroBased(pdf_path, page) ==
    Join(OutputDir, PageFileName(SplitextRoot(Basename(pdf_path)), page - 1))

\* the output path convert_to_image derives when none is supplied
DerivedOutputPath(pdf_path, page) ==
    Join(OutputDir, PageFileName(SplitextRoot(Basename(pdf_path)), page))

\* the directories os.makedirs(d, exist_ok=True) leaves on disk: d and
\* every ancestor of d
MakedirsSet(d) ==
    {SubSeq(d, 1, i) : i \in {j \in 1..Len(d) :
                                 d[j] # Sep /\ (j = Len(d) \/ d[j + 1] = Sep)}}

----------------------------------------------------------------------------
(* The disk the samples live on *)

DocA == <<"a", Sep, "doc", Dot, "pdf">>
DocB == <<"b", Sep, "doc", Dot, "pdf">>
DocEmpty == <<"empty", Dot, "pdf">>
DocBad == <<"bad", Dot, "pdf">>
DocMissing == <<"missing", Dot, "pdf">>

PdfPaths == {DocA, DocB, DocEmpty, DocBad, DocMissing}

\* os.path.exists of a source path
Exists(p) == p \in {DocA, DocB, DocEmpty, DocBad}

\* pdfium.PdfDocument(p) succeeds for a well-formed file
Parses(p) == p \in {DocA, DocB, DocEmpty}

\* len(pdfium.PdfDocument(p))
DiskPages(p) ==
    CASE p = DocA -> MaxPages
      [] p = DocB -> 1
      [] OTHER -> 0

NoPdf == [id |-> 0, path |-> <<>>, pages |-> 0]

\* the dpi default of each script
DefaultDpi == [v \in {"main.py", "test_pypdfium2.py"} |->
                  IF v = "main.py" THEN 150 ELSE 300]

NoError == [type |-> "None", stage |-> "none"]
Err(t, s) == [type |-> t, stage |-> s]

\* the classes `except Exception` catches
ExceptionClasses == {"FileNotFoundError", "ValueError", "PdfiumError", "OSError"}

----------------------------------------------------------------------------
(* PDFConverter: the state one call works on is the record                 *)
(*   [pdf, handles, dirs, files, lib]                                      *)

\* what a rendered page saved at the given resolution looks like on disk
Image(doc, page, dpi) == [src |-> doc, page |-> page, dpi |-> dpi]

\* a file the encoder left half-written
Partial == [src |-> <<>>, page |-> -1, dpi |-> 0]

\* open(output_path, "wb") and what follows: the path now holds img, and
\* has been written once more than before
Written(fs, output_path, img) ==
    (output_path :> [img |-> img,
                     writes |-> IF output_path \in DOMAIN fs
                                THEN fs[output_path].writes + 1 ELSE 1]) @@ fs

\* a handler that is `except ValueError` only
CatchesValueErrorOnly(e) == e.type = "ValueError"

\* `except Exception`: the handler of both conversion operations
Catches(e) == e.type \in ExceptionClasses

\* bool(self.pdf): None is false, and so is a document of length 0
Truthy(d) == d.id # 0 /\ d.pages > 0

\* the pypdfium2 module before any _init_pdfium_library call: it has no
\* _library_initialized attribute, and no font handling has been announced
NoLib == [flag |-> "unset", inits |-> 0, mapping |-> "none"]

\* what line 86-92 announce: a raising _setup_english_font_mapping is caught
FontHandling(font, fault) ==
    IF font # <<>> /\ fault # "fontmap" THEN "english" ELSE "default"

\* an initialisation whose last line leaves _library_initialized False
InitLibraryNeverFlagged(l, font, fault) ==
    IF l.flag = "True" THEN [lib |-> l, exc |-> NoError]
    ELSE IF fault = "init"
    THEN [lib |-> [l EXCEPT !.flag = "False"], exc |-> Err("OSError", "init")]
    ELSE [lib |-> [flag |-> "False", inits |-> l.inits + 1,
                   mapping |-> FontHandling(font, fault)],
          exc |-> NoError]

\* _init_pdfium_library: [lib, exc].  fault "init" is building the config or
\* FPDF_InitLibraryWithConfig raising, which leaves the flag False; fault
\* "fontmap" is _setup_english_font_mapping raising.  The replacement of
\* pdfium._ensure_library_initialized is not read by this script.
InitPdfiumLibrary(l, font, fault) ==
    IF l.flag = "True" THEN [lib |-> l, exc |-> NoError]
    ELSE IF fault = "init"
    THEN [lib |-> [l EXCEPT !.flag = "False"], exc |-> Err("OSError", "init")]
    ELSE [lib |-> [flag |-> "True", inits |-> l.inits + 1,
                   mapping |-> FontHandling(font, fault)],
          exc |-> NoError]

\* line 138 of load_pdf: [lib, exc]; main.py has no such line
EnsureLibrary(l, font, fault) ==
    IF variant = "test_pypdfium2.py"
    THEN InitPdfiumLibrary(l, font, fault)
    ELSE [lib |-> l, exc |-> NoError]

\* load_pdf from line 138 on, ini being what the initialisation left:
\* [s, exc, ret]
OpenPdf(s, pdf_path, ini) ==
    IF ini.exc # NoError
    THEN [s |-> [s EXCEPT !.lib = ini.lib], exc |-> ini.exc, ret |-> -1]
    ELSE IF ~Parses(pdf_path)
    THEN [s |-> [s EXCEPT !.lib = ini.lib],
          exc |-> Err("PdfiumError", "open"), ret |-> -1]
    ELSE [s |-> [s EXCEPT !.lib = ini.lib,
                          !.pdf = [id |-> s.handles + 1, path |-> pdf_path,
                                   pages |-> DiskPages(pdf_path)],
                          !.handles = s.handles + 1],
          exc |-> NoError,
          ret |-> DiskPages(pdf_path)]

\* load_pdf: [s, exc, ret]
LoadPdf(s, pdf_path, fault) ==
    IF ~Exists(pdf_path)
    THEN [s |-> s, exc |-> Err("FileNotFoundError", "load"), ret |-> -1]
    ELSE OpenPdf(s, pdf_path, EnsureLibrary(s.lib, stsong_font, fault))

\* the condition under which convert_to_image loads the document
NeedsLoad(s, pdf_path) ==
    ~Truthy(s.pdf) \/ (hasName /\ s.pdf.path # pdf_path)

\* a validation that lets page_count itself through
InvalidPageOffByOne(page, page_count) == page < 0 \/ page > page_count

\* the page validation of convert_to_image
InvalidPage(page, page_count) == page < 0 \/ page >= page_count

\* os.makedirs(d, exist_ok=True) raises: d is not there and cannot be made
MakedirsFails(s, d, fault) == d \notin s.dirs /\ fault = "mkdir"

\* image.save(output_path, ...): [s, exc]
SaveImage(s, output_path, img, fault) ==
    IF Dirname(output_path) \notin s.dirs
    THEN [s |-> s, exc |-> Err("FileNotFoundError", "save_nodir")]
    ELSE IF fault \notin {"save_fail", "save_partial"}
    THEN [s |-> [s EXCEPT !.files = Written(s.files, output_path, img)],
          exc |-> NoError]
    ELSE IF fault = "save_partial"
    THEN [s |-> [s EXCEPT !.files = Written(s.files, output_path, Partial)],
          exc |-> Err("OSError", "save_io")]
    ELSE [s |-> s, exc |-> Err("OSError", "save_io")]

\* what convert_to_image hands back once its try block has ended with exc
Handled(s, exc, output_path, rendered_, page_count) ==
    [s |-> s,
     result |-> IF exc = NoError THEN output_path ELSE <<>>,
     error |-> IF Catches(exc) THEN exc ELSE NoError,
     escaped |-> IF exc # NoError /\ ~Catches(exc) THEN exc ELSE NoError,
     rendered |-> rendered_,
     page_count |-> page_count]

\* convert_to_image(pdf_path, output_path, dpi, page); fault names the
\* collaborator that fails during the call if the call gets that far:
\* the renderer ("render"), os.makedirs ("mkdir"), or the encoder, leaving
\* the file untouched ("save_fail") or half-written ("save_partial")
ConvertToImage(s, pdf_path, output_path, dpi, page, fault) ==
    LET ld == IF NeedsLoad(s, pdf_path)
              THEN LoadPdf(s, pdf_path, fault)
              ELSE [s |-> s, exc |-> NoError, ret |-> s.pdf.pages]
        page_count == ld.ret
        s1 == ld.s
        shot == <<[doc |-> s1.pdf.path, handle |-> s1.pdf.id, page |-> page]>>
        derive == output_path = <<>>
        s2 == IF derive
              THEN [s1 EXCEPT !.dirs = s1.dirs \cup MakedirsSet(OutputDir)]
              ELSE s1
        out == IF derive THEN DerivedOutputPath(pdf_path, page) ELSE output_path
        sv == SaveImage(s2, out, Image(s1.pdf.path, page, dpi), fault)
    IN  IF ld.exc # NoError
        THEN Handled(s1, ld.exc, <<>>, <<>>, page_count)
        ELSE IF InvalidPage(page, page_count)
        THEN Handled(s1, Err("ValueError", "page"), <<>>, <<>>, page_count)
        ELSE IF page < 0 \/ page >= s1.pdf.pages
        THEN Handled(s1, Err("PdfiumError", "getpage"), <<>>, <<>>, page_count)
        ELSE IF fault = "render"
        THEN Handled(s1, Err("PdfiumError", "render"), <<>>, shot, page_count)
        ELSE IF derive /\ MakedirsFails(s1, OutputDir, fault)
        THEN Handled(s1, Err("OSError", "makedirs"), <<>>, shot, page_count)
        ELSE Handled(sv.s, sv.exc, out, shot, page_count)

RECURSIVE PagesLoop(_, _, _, _, _, _, _)

\* a loop that gives up at the first page whose conversion returns None
PagesLoopStopsAtFailure(s, pdf_path, output_dir, dpi, page_num, page_count, faults) ==
    IF page_num >= page_count
    THEN [s |-> s, converted |-> <<>>, attempts |-> <<>>, rendered |-> <<>>,
          escaped |-> NoError]
    ELSE LET pdf_name == SplitextRoot(Basename(pdf_path))
             output_path == Join(output_dir, PageFileName(pdf_name, page_num))
             r == ConvertToImage(s, pdf_path, output_path, dpi, page_num,
                                 faults[page_num])
             rest == PagesLoop(r.s, pdf_path, output_dir, dpi, page_num + 1,
                               page_count, faults)
         IN  IF r.escaped # NoError \/ r.result = <<>>
             THEN [s |-> r.s, converted |-> <<>>,
                   attempts |-> <<[page |-> page_num, result |-> r.result]>>,
                   rendered |-> r.rendered, escaped |-> r.escaped]
             ELSE [s |-> rest.s,
                   converted |-> <<r.result>> \o rest.converted,
                   attempts |-> <<[page |-> page_num, result |-> r.result]>>
                                \o rest.attempts,
                   rendered |-> r.rendered \o rest.rendered,
                   escaped |-> rest.escaped]

\* the for loop of convert_all_pages from page_num on:
\* [s, converted, attempts, rendered, escaped]; attempts lists each
\* convert_to_image call of the loop with what it returned
PagesLoop(s, pdf_path, output_dir, dpi, page_num, page_count, faults) ==
    IF page_num >= page_count
    THEN [s |-> s, converted |-> <<>>, attempts |-> <<>>, rendered |-> <<>>,
          escaped |-> NoError]
    ELSE LET pdf_name == SplitextRoot(Basename(pdf_path))
             output_path == Join(output_dir, PageFileName(pdf_name, page_num))
             r == ConvertToImage(s, pdf_path, output_path, dpi, page_num,
                                 faults[page_num])
             rest == PagesLoop(r.s, pdf_path, output_dir, dpi, page_num + 1,
                               page_count, faults)
         IN  IF r.escaped # NoError
             THEN [s |-> r.s, converted |-> <<>>,
                   attempts |-> <<[page |-> page_num, result |-> r.result]>>,
                   rendered |-> r.rendered, escaped |-> r.escaped]
             ELSE [s |-> rest.s,
                   converted |-> (IF r.result # <<>> THEN <<r.result>> ELSE <<>>)
                                 \o rest.converted,
                   attempts |-> <<[page |-> page_num, result |-> r.result]>>
                                \o rest.attempts,
                   rendered |-> r.rendered \o rest.rendered,
                   escaped |-> rest.escaped]

\* what convert_all_pages hands back once its try block has ended with exc
HandledAll(s, exc, converted, attempts_, rendered_, page_count) ==
    [s |-> s,
     result |-> IF exc = NoError THEN converted ELSE <<>>,
     error |-> IF Catches(exc) THEN exc ELSE NoError,
     escaped |-> IF exc # NoError /\ ~Catches(exc) THEN exc ELSE NoError,
     rendered |-> rendered_,
     attempts |-> attempts_,
     page_count |-> page_count]

\* convert_all_pages(pdf_path, output_dir, dpi); fault is what fails before
\* the loop, faults[p] what fails while page p is converted
ConvertAllPages(s, pdf_path, output_dir, dpi, fault, faults) ==
    LET ld == LoadPdf(s, pdf_path, fault)
        s1 == [ld.s EXCEPT !.dirs = ld.s.dirs \cup MakedirsSet(output_dir)]
        lp == PagesLoop(s1, pdf_path, output_dir, dpi, 0, ld.ret, faults)
    IN  IF ld.exc # NoError
        THEN HandledAll(ld.s, ld.exc, <<>>, <<>>, <<>>, ld.ret)
        ELSE IF MakedirsFails(ld.s, output_dir, fault)
        THEN HandledAll(ld.s, Err("OSError", "makedirs"), <<>>, <<>>, <<>>, ld.ret)
        ELSE HandledAll(lp.s, lp.escaped, lp.converted, lp.attempts,
                        lp.rendered, ld.ret)

----------------------------------------------------------------------------
(* The font probe of the font-aware variant.  A line of the enumeration    *)
(* output is a sequence of tokens; a font path is one too.                 *)

MaxLines == 2       \* lines of enumeration output

\* font_paths, in the order the probe tries them
FontCandidates ==
    << <<"/System/Library/Fonts/Supplemental/", "Songti", ".ttc">>,
       <<"/System/Library/Fonts/", "Songti", ".ttc">>,
       <<"/Library/Fonts/", "Songti", ".ttc">> >>

\* str.lower() of a token
Lower(tok) ==
    CASE tok = "Songti" -> "songti"
      [] tok = "STSONG" -> "stsong"
      [] tok = ".TTC" -> ".ttc"
      [] tok = "Arial" -> "arial"
      [] tok = "Location:" -> "location:"
      [] OTHER -> tok

\* sub in line.lower(), for the two substrings the probe looks for
HasLower(line, sub) ==
    \E i \in DOMAIN line :
        IF sub = "song" THEN Lower(line[i]) \in {"songti", "stsong"}
        ELSE Lower(line[i]) = sub

RECURSIVE IndexFrom(_, _, _)
\* the least i >= from with line[i] = tok, Len(line) + 1 if there is none
IndexFrom(line, tok, from) ==
    IF from > Len(line) THEN Len(line) + 1
    ELSE IF line[from] = tok THEN from
    ELSE IndexFrom(line, tok, from + 1)

RECURSIVE Strip(_)
\* str.strip(): without the blanks at either end
Strip(s) ==
    IF s = <<>> THEN s
    ELSE IF Head(s) = " " THEN Strip(Tail(s))
    ELSE IF s[Len(s)] = " " THEN Strip(SubSeq(s, 1, Len(s) - 1))
    ELSE s

\* line.split('Location:')[1].strip()
LocationOf(line) ==
    LET i == IndexFrom(line, "Location:", 1)
        j == IndexFrom(line, "Location:", i + 1)
    IN  Strip(SubSeq(line, i + 1, j - 1))

\* the tests a line of the output passes before its path is returned
LineMatches(line, fs) ==
    /\ HasLower(line, "song")
    /\ HasLower(line, ".ttc")
    /\ \E i \in DOMAIN line : line[i] = "Location:"
    /\ LocationOf(line) \in fs

RECURSIVE ScanLines(_, _)
\* the loop over result.stdout.split('\n'): the path of the first line that
\* passes, <<>> if none does
ScanLines(lines, fs) ==
    IF lines = <<>> THEN <<>>
    ELSE IF LineMatches(Head(lines), fs) THEN LocationOf(Head(lines))
    ELSE ScanLines(Tail(lines), fs)

RECURSIVE LastExisting(_, _, _)
\* a probe that prefers the last candidate on disk
LastExisting(paths, fs, i) ==
    IF i > Len(paths) THEN <<>>
    ELSE LET later == LastExisting(paths, fs, i + 1)
         IN  IF later # <<>> THEN later
             ELSE IF paths[i] \in fs THEN paths[i] ELSE <<>>

RECURSIVE FirstExisting(_, _, _)
\* the loop over font_paths from index i on: the first path on disk,
\* <<>> if there is none
FirstExisting(paths, fs, i) ==
    IF i > Len(paths) THEN <<>>
    ELSE IF paths[i] \in fs THEN paths[i]
    ELSE FirstExisting(paths, fs, i + 1)

\* what subprocess.run raises
ProfilerRaises(prof) ==
    CASE prof.outcome = "not_installed" -> "FileNotFoundError"
      [] prof.outcome = "timeout" -> "TimeoutExpired"
      [] OTHER -> "None"

\* the bare `except:` around the enumeration
Swallows(exc) == TRUE

\* _find_stsong_font: [font, ran, raised]; <<>> stands for None
FindStsongFont(fs, prof) ==
    LET hit == FirstExisting(FontCandidates, fs, 1)
        exc == ProfilerRaises(prof)
    IN  IF hit # <<>>
        THEN [font |-> hit, ran |-> FALSE, raised |-> "None"]
        ELSE IF exc # "None"
        THEN [font |-> <<>>, ran |-> TRUE,
              raised |-> IF Swallows(exc) THEN "None" ELSE exc]
        ELSE IF prof.outcome = "ok"
        THEN [font |-> ScanLines(prof.stdout, fs), ran |-> TRUE,
              raised |-> "None"]
        ELSE [font |-> <<>>, ran |-> TRUE, raised |-> "None"]

\* the environments the probe is run in
SampleLines ==
    { <<" ", "Location:", " ", "/Fonts/", "Songti", ".ttc">>,
      <<"Location:", " ", "/Fonts/", "STSONG", ".TTC", " ">>,
      <<"Songti", ".ttc">>,
      <<"Location:", " ", "/Fonts/", "Arial", ".ttf">>,
      <<"Location:", " ", "/Fonts/", "Songti", ".ttf">>,
      <<"Songti", ".ttc", " ", "Location:", " ">>,
      <<"Location:", " ", "/Fonts/", "Songti", ".ttc", " ", "Location:",
        " ", "/Fonts/", "Arial", ".ttf">> }

ListedFonts == {LocationOf(l) : l \in SampleLines} \ {<<>>}

FontFiles == {FontCandidates[i] : i \in DOMAIN FontCandidates} \cup ListedFonts

RECURSIVE SeqsUpTo(_, _)
\* the sequences over S of length at most n
SeqsUpTo(S, n) ==
    IF n = 0 THEN {<<>>}
    ELSE LET shorter == SeqsUpTo(S, n - 1)
         IN  shorter \cup {Append(q, x) : q \in shorter, x \in S}

Profilers ==
    {[outcome |-> o, stdout |-> <<>>] : o \in {"not_installed", "timeout", "nonzero"}}
    \cup {[outcome |-> "ok", stdout |-> q] : q \in SeqsUpTo(SampleLines, MaxLines)}

NoProbe == [done |-> FALSE, ran |-> FALSE, raised |-> "None"]

InitFont ==
    /\ fontFs \in SUBSET FontFiles
    /\ profiler \in Profilers
    /\ stsong_font = <<>>
    /\ probe = NoProbe

\* PDFConverter.__init__ of the font-aware variant
Construct ==
    /\ pc = "new"
    /\ LET r == FindStsongFont(fontFs, profiler)
       IN  /\ stsong_font' = r.font
           /\ probe' = [done |-> TRUE, ran |-> r.ran, raised |-> r.raised]
           /\ pc' = IF r.raised = "None" THEN "api" ELSE "crashed"
    /\ UNCHANGED <<variant, hasName, parked, convVars, callVars, running, argv, opts,
                   fontFs, profiler>>

----------------------------------------------------------------------------
(* main(): the command line.  An argument is a sequence of tokens; int()   *)
(* reads it token by token, a token being a digit, a sign, a blank or      *)
(* something else.                                                         *)

Digits == <<"0", "1", "2", "3", "4", "5", "6", "7", "8", "9">>

IsDigit(c) == \E i \in DOMAIN Digits : Digits[i] = c

DigitValue(c) == (CHOOSE i \in DOMAIN Digits : Digits[i] = c) - 1

RECURSIVE DigitsValue(_)
\* the number a non-empty sequence of digits denotes
DigitsValue(ds) ==
    IF Len(ds) = 1 THEN DigitValue(ds[1])
    ELSE 10 * DigitsValue(SubSeq(ds, 1, Len(ds) - 1)) + DigitValue(ds[Len(ds)])

\* the digits of a literal, its sign taken off
Unsigned(s) ==
    LET u == Strip(s)
    IN  IF u # <<>> /\ u[1] \in {"-", "+"} THEN Tail(u) ELSE u

\* int(s) does not raise ValueError
IsInt(s) ==
    /\ Unsigned(s) # <<>>
    /\ \A i \in DOMAIN Unsigned(s) : IsDigit(Unsigned(s)[i])

\* int(s)
IntValue(s) ==
    IF Strip(s)[1] = "-" THEN 0 - DigitsValue(Unsigned(s))
    ELSE DigitsValue(Unsigned(s))

\* sys.argv[i] and len(sys.argv)
Arg(i) == argv[i + 1]
Argc == Len(argv)

AllFlag == <<"--all">>

NoOpts == [output_path |-> <<>>, dpi |-> 0, page |-> 0, convert_all |-> FALSE,
           output_dir |-> <<>>]

\* the argument parsing of main(): the options it ends with
ParseArgs(v, av) ==
    LET n == Len(av)
        a(i) == av[i + 1]
        all == n > 2 /\ a(2) = AllFlag
        single == n > 2 /\ a(2) # AllFlag
        dpiOk == single /\ n > 3 /\ IsInt(a(3))
        pageOk == n > 4 /\ IsInt(a(4))
        \* the try block: int(argv[3]), then int(argv[4]); a ValueError of
        \* either resets dpi
        raised == single /\ n > 3 /\ (~IsInt(a(3)) \/ (n > 4 /\ ~IsInt(a(4))))
    IN  [output_path |->
             IF single
             THEN (IF IsAbs(a(2)) THEN a(2) ELSE Join(OutputDir, a(2)))
             ELSE <<>>,
         dpi |-> IF dpiOk /\ ~raised THEN IntValue(a(3)) ELSE DefaultDpi[v],
         page |-> IF dpiOk /\ pageOk THEN IntValue(a(4)) - 1 ELSE 0,
         convert_all |-> all,
         output_dir |-> IF all /\ n > 3 THEN a(3) ELSE OutputDir]

\* main() makes the default output directory while it parses
ParseMakesOutputDir(av) ==
    Len(av) > 2 /\ av[3] # AllFlag /\ ~IsAbs(av[3])

----------------------------------------------------------------------------
(* A converter object driven through its two public operations *)

\* the inputs the calls are drawn from
CtiPaths == {DocA, DocB, DocMissing}
OutPaths == {<<>>, <<"new", Sep, "out", Dot, "png">>}
OutDirs == {OutputDir, <<"new">>}
Pages == -1..MaxPages
Faults == {"none", "render", "mkdir", "save_fail", "save_partial"}
PageFaults == {"none", "render", "save_fail"}

Conv == [pdf |-> pdf, handles |-> handles, dirs |-> dirs, files |-> files,
         lib |-> lib]

\* no second instance
NoParked == [made |-> FALSE, pdf |-> NoPdf, stsong_font |-> <<>>]

NoCall == [op |-> "none", pdf_path |-> <<>>, output |-> <<>>, dpi |-> 0,
           page |-> 0, page_count |-> -1, parentMissing |-> FALSE]

InitDisk ==
    /\ dirs = {<<>>, <<Sep>>, <<"a">>, <<"b">>}
    /\ files = <<>>

InitConverter ==
    /\ pdf = NoPdf
    /\ handles = 0
    /\ released = <<>>
    /\ lastCall = NoCall
    /\ result = <<>>
    /\ error = NoError
    /\ escaped = NoError
    /\ rendered = <<>>
    /\ attempts = <<>>
    /\ calls = 0
    /\ lib = NoLib
    /\ parked = NoParked

InitNoFont ==
    /\ fontFs = {}
    /\ profiler = [outcome |-> "not_installed", stdout |-> <<>>]
    /\ stsong_font = <<>>
    /\ probe = NoProbe

Init ==
    /\ variant = "main.py"
    /\ hasName \in BOOLEAN
    /\ InitDisk
    /\ InitConverter
    /\ InitNoFont
    /\ running = TRUE
    /\ argv = <<>>
    /\ pc = "api"
    /\ opts = NoOpts

\* the effect of a finished call on the state
Returns(r, call, attempts_) ==
    /\ pdf' = r.s.pdf
    /\ handles' = r.s.handles
    /\ lib' = r.s.lib
    /\ dirs' = r.s.dirs
    /\ files' = r.s.files
    /\ lastCall' = [call EXCEPT !.page_count = r.page_count]
    /\ result' = r.result
    /\ error' = r.error
    /\ escaped' = r.escaped
    /\ rendered' = r.rendered
    /\ attempts' = attempts_
    /\ calls' = calls + 1
    /\ UNCHANGED released

CallConvertToImage ==
    /\ running /\ pc = "api" /\ calls < MaxCalls
    /\ \E pdf_path \in CtiPaths, output_path \in OutPaths, page \in Pages,
          fault \in Faults :
         Returns(ConvertToImage(Conv, pdf_path, output_path,
                                DefaultDpi[variant], page, fault),
                 [op |-> "convert_to_image", pdf_path |-> pdf_path,
                  output |-> output_path, dpi |-> DefaultDpi[variant],
                  page |-> page, page_count |-> -1,
                  parentMissing |-> output_path # <<>>
                                    /\ Dirname(output_path) \notin dirs],
                 <<>>)
    /\ UNCHANGED <<variant, hasName, parked, running, mainVars, fontVars>>

CallConvertAllPages ==
    /\ running /\ pc = "api" /\ calls < MaxCalls
    /\ \E pdf_path \in PdfPaths, output_dir \in OutDirs,
          fault \in {"none", "mkdir"} :
       \E faults \in [0..(DiskPages(pdf_path) - 1) -> PageFaults] :
         LET r == ConvertAllPages(Conv, pdf_path, output_dir,
                                  DefaultDpi[variant], fault, faults)
         IN  Returns(r,
                     [op |-> "convert_all_pages", pdf_path |-> pdf_path,
                      output |-> output_dir, dpi |-> DefaultDpi[variant],
                      page |-> 0, page_count |-> -1,
                      parentMissing |-> output_dir \notin dirs],
                     r.attempts)
    /\ UNCHANGED <<variant, hasName, parked, running, mainVars, fontVars>>

\* the script ends: nothing in it closes the document
Finish ==
    /\ running /\ pc = "api"
    /\ running' = FALSE
    /\ UNCHANGED <<variant, hasName, parked, convVars, callVars, mainVars, fontVars>>

Next == CallConvertToImage \/ CallConvertAllPages \/ Finish

Spec == Init /\ [][Next]_vars

\* the font-aware converter being constructed
InitProbe ==
    /\ variant = "test_pypdfium2.py"
    /\ hasName = FALSE
    /\ InitDisk
    /\ InitConverter
    /\ InitFont
    /\ running = TRUE
    /\ argv = <<>>
    /\ pc = "new"
    /\ opts = NoOpts

NextProbe == Construct

SpecProbe == InitProbe /\ [][NextProbe]_vars

----------------------------------------------------------------------------
(* The font-aware converter in use: one process, up to two PDFConverter    *)
(* instances, every load_pdf passing through _init_pdfium_library.         *)

MaxLoads == 3

LibPaths == {DocA, DocMissing}
LibFaults == {"none", "init", "fontmap", "render"}

InitLib ==
    /\ variant = "test_pypdfium2.py"
    /\ hasName \in BOOLEAN
    /\ InitDisk
    /\ InitConverter
    /\ fontFs \in {{}, {FontCandidates[1]}}
    /\ profiler = [outcome |-> "not_installed", stdout |-> <<>>]
    /\ stsong_font = <<>>
    /\ probe = NoProbe
    /\ running = TRUE
    /\ argv = <<>>
    /\ pc = "new"
    /\ opts = NoOpts

LibConvertToImage ==
    /\ running /\ pc = "api" /\ calls < MaxLoads
    /\ \E pdf_path \in LibPaths, fault \in LibFaults :
         Returns(ConvertToImage(Conv, pdf_path, <<>>, DefaultDpi[variant],
                                0, fault),
                 [op |-> "convert_to_image", pdf_path |-> pdf_path,
                  output |-> <<>>, dpi |-> DefaultDpi[variant],
                  page |-> 0, page_count |-> -1, parentMissing |-> FALSE],
                 <<>>)
    /\ UNCHANGED <<variant, hasName, parked, running, mainVars, fontVars>>

LibConvertAllPages ==
    /\ running /\ pc = "api" /\ calls < MaxLoads
    /\ \E fault \in {"none", "init", "fontmap"} :
         LET r == ConvertAllPages(Conv, DocB, OutputDir, DefaultDpi[variant],
                                  fault, [i \in 0..(DiskPages(DocB) - 1)
                                            |-> "none"])
         IN  Returns(r,
                     [op |-> "convert_all_pages", pdf_path |-> DocB,
                      output |-> OutputDir, dpi |-> DefaultDpi[variant],
                      page |-> 0, page_count |-> -1,
                      parentMissing |-> OutputDir \notin dirs],
                     r.attempts)
    /\ UNCHANGED <<variant, hasName, parked, running, mainVars, fontVars>>

\* PDFConverter() a second time: the first instance stays alive, the new
\* one starts with self.pdf = None and goes on to look for its font
NewInstance ==
    /\ running /\ pc = "api"
    /\ ~parked.made
    /\ parked' = [made |-> TRUE, pdf |-> pdf, stsong_font |-> stsong_font]
    /\ pdf' = NoPdf
    /\ stsong_font' = <<>>
    /\ probe' = NoProbe
    /\ pc' = "new"
    /\ UNCHANGED <<variant, hasName, handles, released, dirs, files, lib,
                   callVars, running, argv, opts, fontFs, profiler>>

\* the caller turns to its other instance: self is the other object from
\* now on
SwitchInstance ==
    /\ running /\ pc = "api"
    /\ parked.made
    /\ parked' = [made |-> TRUE, pdf |-> pdf, stsong_font |-> stsong_font]
    /\ pdf' = parked.pdf
    /\ stsong_font' = parked.stsong_font
    /\ UNCHANGED <<variant, hasName, handles, released, dirs, files, lib,
                   callVars, running, pc, argv, opts, fontFs, profiler, probe>>

NextLib ==
    \/ Construct
    \/ LibConvertToImage
    \/ LibConvertAllPages
    \/ NewInstance
    \/ SwitchInstance

SpecLib == InitLib /\ [][NextLib]_vars

\* no arguments: the usage text and sys.exit(1)
MainUsage ==
    /\ pc = "start"
    /\ Argc < 2
    /\ pc' = "exit1"
    /\ running' = FALSE
    /\ UNCHANGED <<variant, hasName, parked, convVars, callVars, argv, opts, fontVars>>

\* main() up to the construction of the converter
MainParse ==
    /\ pc = "start"
    /\ Argc >= 2
    /\ \E fault \in {"none", "mkdir"} :
         IF ParseMakesOutputDir(argv) /\ MakedirsFails(Conv, OutputDir, fault)
         THEN /\ pc' = "crashed"
              /\ running' = FALSE
              /\ UNCHANGED <<opts, dirs>>
         ELSE /\ pc' = "parsed"
              /\ opts' = ParseArgs(variant, argv)
              /\ dirs' = IF ParseMakesOutputDir(argv)
                         THEN dirs \cup MakedirsSet(OutputDir) ELSE dirs
              /\ UNCHANGED running
    /\ UNCHANGED <<variant, hasName, parked, pdf, handles, released, files, lib,
                   callVars,
                   argv, fontVars>>

\* converter = PDFConverter()
MainConstruct ==
    /\ pc = "parsed"
    /\ pc' = "ready"
    /\ IF variant = "test_pypdfium2.py"
       THEN LET r == FindStsongFont(fontFs, profiler)
            IN  /\ stsong_font' = r.font
                /\ probe' = [done |-> TRUE, ran |-> r.ran, raised |-> r.raised]
       ELSE UNCHANGED <<stsong_font, probe>>
    /\ UNCHANGED <<variant, hasName, parked, convVars, callVars, running, argv, opts,
                   fontFs, profiler>>

\* the converter call main() makes in --all mode
MainConvertAll ==
    /\ pc = "ready"
    /\ opts.convert_all
    /\ \E fault \in {"none", "mkdir"} :
       \E faults \in [0..(DiskPages(Arg(1)) - 1) -> PageFaults] :
         LET r == ConvertAllPages(Conv, Arg(1), opts.output_dir, opts.dpi,
                                  fault, faults)
         IN  Returns(r,
                     [op |-> "convert_all_pages", pdf_path |-> Arg(1),
                      output |-> opts.output_dir, dpi |-> opts.dpi,
                      page |-> 0, page_count |-> -1,
                      parentMissing |-> opts.output_dir \notin dirs],
                     r.attempts)
    /\ pc' = "done"
    /\ running' = FALSE
    /\ UNCHANGED <<variant, hasName, parked, argv, opts, fontVars>>

\* the converter call main() makes in single-page mode
MainConvertOne ==
    /\ pc = "ready"
    /\ ~opts.convert_all
    /\ \E fault \in Faults :
         Returns(ConvertToImage(Conv, Arg(1), opts.output_path, opts.dpi,
                                opts.page, fault),
                 [op |-> "convert_to_image", pdf_path |-> Arg(1),
                  output |-> opts.output_path, dpi |-> opts.dpi,
                  page |-> opts.page, page_count |-> -1,
                  parentMissing |-> opts.output_path # <<>>
                                    /\ Dirname(opts.output_path) \notin dirs],
                 <<>>)
    /\ pc' = "done"
    /\ running' = FALSE
    /\ UNCHANGED <<variant, hasName, parked, argv, opts, fontVars>>

\* the argument vectors main() is run on
NumStrings ==
    { <<"1">>, <<"2">>, <<"3">>, <<"0">>, <<"-", "1">>, <<"7", "2">>,
      <<" ", "2">>, <<"x">>, <<"1", "x">>, <<>> }

ArgVectors ==
    LET prog == <<"prog">>
        srcs == {DocA, DocMissing}
        outs == {AllFlag, <<"out", Dot, "png">>,
                 <<"sub", Sep, "out", Dot, "png">>,
                 <<Sep, "tmp", Sep, "out", Dot, "png">>}
        thirds == NumStrings \cup {<<"new">>}
    IN  {<<prog>>}
        \cup {<<prog, s>> : s \in srcs}
        \cup {<<prog, s, o>> : s \in srcs, o \in outs}
        \cup {<<prog, s, o, a3>> : s \in srcs, o \in outs, a3 \in thirds}
        \cup {<<prog, s, o, a3, a4>> :
                 s \in srcs, o \in outs, a3 \in thirds, a4 \in NumStrings}

InitMain ==
    /\ variant \in {"main.py", "test_pypdfium2.py"}
    /\ hasName = FALSE
    /\ InitDisk
    /\ InitConverter
    /\ fontFs \in {{}, {FontCandidates[2], FontCandidates[3]}}
    /\ profiler = [outcome |-> "not_installed", stdout |-> <<>>]
    /\ stsong_font = <<>>
    /\ probe = NoProbe
    /\ running = TRUE
    /\ argv \in ArgVectors
    /\ pc = "start"
    /\ opts = NoOpts

NextMain ==
    MainUsage \/ MainParse \/ MainConstruct \/ MainConvertAll \/ MainConvertOne

SpecMain == InitMain /\ [][NextMain]_vars

----------------------------------------------------------------------------
(* Properties of the converter *)

IsCti == lastCall.op = "convert_to_image"
IsCap == lastCall.op = "convert_all_pages"

\* C1: a convert_to_image call for a path that does not exist fails with
\* FileNotFoundError, returns None and renders nothing, whatever the
\* converter had loaded before.
C1_MissingPathFailsBeforeRender ==
    (IsCti /\ ~Exists(lastCall.pdf_path)) =>
        /\ result = <<>>
        /\ error = Err("FileNotFoundError", "load")
        /\ rendered = <<>>

\* C2: the page a convert_to_image call validates and renders belongs to
\* the document at the path given in that call.
C2_RendersRequestedDocument ==
    IsCti =>
        /\ \A i \in DOMAIN rendered : rendered[i].doc = lastCall.pdf_path
        /\ lastCall.page_count >= 0 =>
               /\ pdf.path = lastCall.pdf_path
               /\ lastCall.page_count = DiskPages(lastCall.pdf_path)

\* C3: a convert_to_image call whose page index is negative or not below
\* the page count fails with the invalid-page ValueError, returns None,
\* renders nothing and leaves the files on disk as they were.
C3_InvalidPageNoOutput ==
    [][(/\ calls' = calls + 1
        /\ lastCall'.op = "convert_to_image"
        /\ lastCall'.page_count >= 0
        /\ (lastCall'.page < 0 \/ lastCall'.page >= lastCall'.page_count))
       => (/\ result' = <<>>
           /\ error' = Err("ValueError", "page")
           /\ rendered' = <<>>
           /\ files' = files)]_vars

C3_Witness ==
    /\ IsCti
    /\ lastCall.page_count >= 1
    /\ lastCall.page >= lastCall.page_count
    /\ result = <<>>
    /\ files # <<>>

\* the results of the loop's calls that are paths, in loop order
RECURSIVE Successes(_)
Successes(as) ==
    IF as = <<>> THEN <<>>
    ELSE (IF Head(as).result # <<>> THEN <<Head(as).result>> ELSE <<>>)
         \o Successes(Tail(as))

\* convert_all_pages went through pages 0..N-1 once each in ascending order
\* and returned the paths of the pages that succeeded, each path holding a
\* file
BatchComplete ==
    /\ Len(attempts) = lastCall.page_count
    /\ \A i \in DOMAIN attempts : attempts[i].page = i - 1
    /\ result = Successes(attempts)
    /\ \A i \in DOMAIN attempts :
          attempts[i].result # <<>> =>
              /\ attempts[i].result =
                     lastCall.output \o <<Sep>>
                     \o SplitextRoot(Basename(lastCall.pdf_path))
                     \o <<"_page_", ToString(i), Dot, "png">>
              /\ attempts[i].result \in DOMAIN files
    /\ Len(result) <= lastCall.page_count
    /\ (Len(result) = lastCall.page_count)
           <=> (\A i \in DOMAIN attempts : attempts[i].result # <<>>)

C5_MissingParentCreated ==
    (/\ IsCti
     /\ lastCall.output # <<>>
     /\ lastCall.parentMissing
     /\ error.stage \notin {"load", "open", "page", "getpage", "render",
                            "save_io"})
    => (/\ result = lastCall.output
        /\ Dirname(lastCall.output) \in dirs
        /\ result \in DOMAIN files)

\* how often handle h has been released
ReleaseCount(h) == Cardinality({i \in DOMAIN released : released[i] = h})

\* C6: when the run has ended every acquired handle has been released
\* exactly once.
C6_HandlesReleasedAtEnd ==
    ~running => \A h \in 1..handles : ReleaseCount(h) = 1

\* C8: no exception leaves a conversion operation; a failed
\* convert_to_image returns None, and convert_all_pages returns a list,
\* the empty one when the document cannot be opened.
C8_NoFailureEscapes ==
    /\ escaped = NoError
    /\ (IsCti /\ error # NoError) => result = <<>>
    /\ (IsCti /\ error = NoError) => result # <<>>
    /\ IsCap => result \in Seq(DOMAIN files)
    /\ (IsCap /\ error.stage \in {"load", "open"}) => result = <<>>

C8_Witness ==
    /\ IsCap
    /\ ~Exists(lastCall.pdf_path)
    /\ error.type = "FileNotFoundError"
    /\ result = <<>>
    /\ files # <<>>

\* the derived path spelled out: output/<stem>_page_<N>.png
SpelledOut(stem, n) == <<"output", "/">> \o stem \o <<"_page_", n, ".", "png">>

\* the base name of a sample path without its extension
Stem(p) ==
    CASE p \in {DocA, DocB} -> <<"doc">>
      [] p = DocMissing -> <<"missing">>
      [] p = DocEmpty -> <<"empty">>
      [] p = DocBad -> <<"bad">>

\* C9: without an output path, a successful convert_to_image returns
\* output/<pdf_basename>_page_<page + 1>.png and that file is the image of
\* this call; when the previous call converted the same path and page the
\* same way, the path is the same and the file it wrote is overwritten;
\* distinct pages of one document get distinct derived paths.
C9_DerivedPath ==
    /\ [][(/\ calls' = calls + 1
           /\ lastCall'.op = "convert_to_image"
           /\ lastCall'.output = <<>>
           /\ result' # <<>>)
          => (/\ result' = SpelledOut(Stem(lastCall'.pdf_path),
                                      ToString(lastCall'.page + 1))
              /\ result' \in DOMAIN files'
              /\ files'[result'].img =
                     Image(rendered'[1].doc, lastCall'.page, lastCall'.dpi)
              /\ (/\ IsCti /\ lastCall.output = <<>> /\ result # <<>>
                  /\ lastCall.pdf_path = lastCall'.pdf_path
                  /\ lastCall.page = lastCall'.page)
                 => (/\ result' = result
                     /\ DOMAIN files' = DOMAIN files
                     /\ files'[result'].writes = files[result].writes + 1))
         ]_vars
    /\ [](\A d \in PdfPaths : \A p, q \in 0..MaxPages :
             p # q => DerivedOutputPath(d, p) # DerivedOutputPath(d, q))

C9_Witness ==
    /\ IsCti
    /\ lastCall.output = <<>>
    /\ result # <<>>
    /\ calls = 2
    /\ DOMAIN files = {result}
    /\ files[result].writes = 2

----------------------------------------------------------------------------
(* Properties of the command line *)

\* C7: in single-page mode an integer third argument is the dpi of the
\* conversion whatever the fourth argument is, any other third argument
\* leaves the script's default dpi, and an integer fourth argument n makes
\* the conversion use page index n - 1.
C7_DpiAndPageFromArgs ==
    (pc = "done" /\ IsCti /\ Argc > 3) =>
        /\ IsInt(Arg(3)) => lastCall.dpi = IntValue(Arg(3))
        /\ ~IsInt(Arg(3)) => lastCall.dpi = DefaultDpi[variant]
        /\ (Argc > 4 /\ IsInt(Arg(4))) => lastCall.page = IntValue(Arg(4)) - 1

----------------------------------------------------------------------------
(* Properties of the font probe *)

CandidateOnDisk(i) == FontCandidates[i] \in fontFs

\* C10: the probe never raises; if a candidate location exists it returns
\* the first one in list order and does not run the enumeration; otherwise
\* it returns only a path that the enumeration output names and that
\* exists, and None when the enumeration fails, times out, ends with a
\* non-zero status or names no matching existing path.
C10_FontProbe ==
    probe.done =>
        /\ probe.raised = "None"
        /\ (\E i \in DOMAIN FontCandidates : CandidateOnDisk(i)) =>
               /\ ~probe.ran
               /\ \E i \in DOMAIN FontCandidates :
                     /\ stsong_font = FontCandidates[i]
                     /\ CandidateOnDisk(i)
                     /\ \A j \in 1..(i - 1) : ~CandidateOnDisk(j)
        /\ (\A i \in DOMAIN FontCandidates : ~CandidateOnDisk(i)) =>
               /\ probe.ran
               /\ stsong_font # <<>> =>
                      /\ profiler.outcome = "ok"
                      /\ stsong_font \in fontFs
                      /\ \E k \in DOMAIN profiler.stdout :
                            /\ LocationOf(profiler.stdout[k]) = stsong_font
                            /\ LineMatches(profiler.stdout[k], fontFs)
               /\ (\/ profiler.outcome # "ok"
                   \/ \A k \in DOMAIN profiler.stdout :
                         ~LineMatches(profiler.stdout[k], fontFs))
                  => stsong_font = <<>>

C10_Witness ==
    /\ probe.done
    /\ ~CandidateOnDisk(1)
    /\ CandidateOnDisk(2)
    /\ CandidateOnDisk(3)
    /\ stsong_font = FontCandidates[2]
    /\ ~probe.ran

\* C11: in the font-aware script FPDF_InitLibraryWithConfig completes at
\* most once per process, whatever load_pdf calls are made on whichever
\* converter instances: the flag is True exactly when it has completed,
\* and once the flag is True no step changes the library state again.
C11_InitAtMostOnce ==
    /\ [](lib.inits <= 1 /\ (lib.flag = "True" <=> lib.inits = 1))
    /\ [][lib.flag = "True" => lib' = lib]_vars

\* the initialisation has completed and each of two instances has gone
\* through load_pdf and holds its own document
C11_Witness ==
    /\ lib.flag = "True"
    /\ lib.inits = 1
    /\ parked.made
    /\ parked.pdf # NoPdf
    /\ pdf # NoPdf
    /\ pdf.id # parked.pdf.id
    /\ handles >= 2
    /\ calls = MaxLoads

====
